---- MODULE Spec2Model ----
(***************************************************************************)
(* The research workflow of src/src/graph.ts: the LangGraph state graph    *)
(* Plan -> Search -> Evaluate -> {Search | Write} -> END, with the stage   *)
(* functions of src/src/nodes/plan.ts and src/src/nodes/search.ts.         *)
(*                                                                         *)
(* The Text Completion Service (Gemini) and the Web Search Service         *)
(* (Tavily) are the environment: each call either fails (throws) or        *)
(* answers, and the answer is drawn from a small set of responses.         *)
(***************************************************************************)
EXTENDS Integers, Sequences, FiniteSets, TLC

VARIABLES
    pc,               \* the node the graph runs next; "END" or "Error" when the run is over
    error,            \* the message of the error thrown to the caller of invoke, "" if none
    inputTopic,       \* the topic the caller passed to researcher.invoke
    topic,            \* channel topic
    queries,          \* channel queries
    results,          \* channel results: sequence of [query, searchResults]
    isComplete,       \* channel isComplete (unset reads as false: !!state.isComplete)
    filteredResults,  \* channel filteredResults: sequence of [query, searchResults]
    report,           \* channel report: <<>> while unset, else <<[title, content]>>
    iterationCount,   \* channel iterationCount (unset reads as 0: state.iterationCount || 0)
    qi,               \* searchingNode: index of the query the for-loop is at
    newResults,       \* searchingNode: the local newResults
    planYield,        \* history: <<>> until Plan returned, then <<the queries it returned>>
    lastEvaluation,   \* history: the outcome of the latest evaluateCompleteness call
    searched,         \* history: the queries the current/latest Search stage sent to search()
    nSearch,          \* history: number of Search stage executions started
    nEvaluate,        \* history: number of Evaluate stage executions
    nWrite,           \* history: number of Write stage executions
    inFlight,         \* searchingNode: the awaited searchTool.invoke call: "none" when no
                      \* call is out, "pending" when its answer will come, "never" when
                      \* the service will not answer it
    serviceCalls,     \* history: the services called so far in this run
    answers,          \* history: the Web Search Service's answers in the running Search stage
    lastFiltered,     \* history: what filterSearchResults returned in the latest Evaluate
    flattened,        \* history: the flattenedResults the latest Evaluate worked on
    filterInput,      \* filterSearchResults alone: its results argument
    filterResponse,   \* filterSearchResults alone: the service's answer to its call
    filterOutput,     \* filterSearchResults alone: <<>> until it returned, then <<its result>>
    evalInput,        \* evaluateCompleteness alone: its results argument
    evalAnswers,      \* evaluateCompleteness alone: the service's answers to its two calls
    evalOutput,       \* evaluateCompleteness alone: <<>> until it returned, then <<its result>>
    dedupInput,       \* SearchResults.dedup alone: the results of the object it is called on
    dedupOutput,      \* SearchResults.dedup alone: <<>> until it returned, then <<its result>>
    dedupAgain,       \* SearchResults.dedup alone: <<>> until dedup was called on the result
                      \* too, then <<what that call returned>>
    reportInput,      \* generateReport alone: its topic, its results, the service's answer
    reportOutput,     \* generateReport alone: <<>> until it ended, then <<its outcome>>
    processInput,     \* processSearchResults alone: its results, and the service's answer
                      \* to the summary call of each
    processOutput     \* processSearchResults alone: <<>> until it returned, then <<its result>>

vars == <<pc, error, inputTopic, topic, queries, results, isComplete, filteredResults,
          report, iterationCount, qi, newResults, planYield, lastEvaluation, searched,
          nSearch, nEvaluate, nWrite, inFlight, serviceCalls, answers, lastFiltered,
          flattened,
          filterInput, filterResponse, filterOutput, evalInput, evalAnswers, evalOutput,
          dedupInput, dedupOutput, dedupAgain, reportInput, reportOutput,
          processInput, processOutput>>

channels == <<topic, queries, results, isComplete, filteredResults, report, iterationCount>>
history == <<planYield, lastEvaluation, searched, nSearch, nEvaluate, nWrite>>

\* the variables of the workflow run
workflow == <<pc, error, inputTopic, channels, qi, newResults, history, inFlight,
              serviceCalls, answers, lastFiltered, flattened>>

\* the variables of filterSearchResults run on its own
filterHarness == <<filterInput, filterResponse, filterOutput>>

\* the variables of evaluateCompleteness run on its own
evalHarness == <<evalInput, evalAnswers, evalOutput>>

\* the variables of SearchResults.dedup run on its own
dedupHarness == <<dedupInput, dedupOutput, dedupAgain>>

\* the variables of processSearchResults run on its own
processHarness == <<processInput, processOutput>>

\* the variables of generateReport run on its own
reportHarness == <<reportInput, reportOutput>>

\* the variables of the functions run on their own
harness == <<filterHarness, evalHarness, dedupHarness, reportHarness, processHarness>>

(***************************************************************************)
(* Program constants.                                                      *)
(***************************************************************************)
MAX_ITERATIONS == 3

maxQueries == 5

maxResults == 5

maxFiltered == 10

(***************************************************************************)
(* Bounds of the model.                                                    *)
(***************************************************************************)
\* the most hits one Web Search Service response carries
MaxHits == 2

\* generateReport alone: the most lines of a report text
MaxLines == 3

\* processSearchResults alone: the most results of the batch it refines
MaxProcessInput == 2

\* filterSearchResults alone: the most results it is given
MaxFilterInput == 2

\* filterSearchResults alone: the longest rankedSources the service answers
MaxRanked == 2

\* evaluateCompleteness alone: the most follow-up queries the service answers
MaxFollowUps == 2

\* SearchResults.dedup alone: the most results of the list it is called on
MaxDedupInput == 3

(***************************************************************************)
(* Sequence helpers (Array.prototype.slice, filter, flatMap).              *)
(***************************************************************************)
Min(a, b) == IF a < b THEN a ELSE b

\* a slice that keeps everything
TakeAll(xs, n) == xs

\* xs.slice(0, n)
Take(xs, n) == SubSeq(xs, 1, Min(n, Len(xs)))

RECURSIVE Flatten(_)
\* batches.flatMap(b => b)
Flatten(seqs) == IF seqs = <<>> THEN <<>> ELSE Head(seqs) \o Flatten(Tail(seqs))

RECURSIVE NonEmptyStrings(_)
\* xs.filter(q => q.length > 0)
NonEmptyStrings(xs) ==
    IF xs = <<>> THEN <<>>
    ELSE IF Head(xs) = "" THEN NonEmptyStrings(Tail(xs))
         ELSE <<Head(xs)>> \o NonEmptyStrings(Tail(xs))

(***************************************************************************)
(* A call of the Text Completion Service: it fails, or it answers a text.  *)
(***************************************************************************)
Failure == [ok |-> FALSE]
Answer(t) == [ok |-> TRUE, text |-> t]

(***************************************************************************)
(* JavaScript values as JSON.parse yields them, as far as the code tells   *)
(* them apart.  A value is [t, items]: t is its kind, items its elements   *)
(* (of an array) or characters (of a string), which is what .length and    *)
(* for..of see.                                                            *)
(***************************************************************************)
Undefined == [t |-> "undefined", items |-> <<>>]
JTrue == [t |-> "true", items |-> <<>>]
JFalse == [t |-> "false", items |-> <<>>]
JString(chars) == [t |-> "string", items |-> chars]
JArray(items) == [t |-> "array", items |-> items]

\* an element of rankedSources: the number n, the number n + 0.5, or something
\* that is not a number (JSON numbers are not only integers)
Num(n) == [isNumber |-> TRUE, n |-> n, half |-> FALSE]
NumAndHalf(n) == [isNumber |-> TRUE, n |-> n, half |-> TRUE]
NotANumber == [isNumber |-> FALSE, n |-> 0, half |-> FALSE]

\* twice the value of a number, an integer for the numbers above
Twice(num) == 2 * num.n + (IF num.half THEN 1 ELSE 0)

\* a parsed JSON object with the properties the code reads; Null is JSON null
Obj(ic, qs, rs) == [type |-> "object", isComplete |-> ic, queries |-> qs, rankedSources |-> rs]
Null == [type |-> "null", isComplete |-> Undefined, queries |-> Undefined,
         rankedSources |-> Undefined]

(***************************************************************************)
(* Texts that are meant to carry JSON.  form says what parseJsonFromText's *)
(* regular expressions and JSON.parse make of the text:                    *)
(*   "object"  a {...} span (fenced or not) that JSON.parse accepts        *)
(*   "literal" no {...} or [...] span, the whole text is the JSON literal  *)
(*             null, which JSON.parse accepts                              *)
(*   "prose"   no span and no JSON: JSON.parse throws                      *)
(*   "broken"  a {...} span that JSON.parse rejects                        *)
(***************************************************************************)
JsonText(form, value) == [form |-> form, value |-> value]

\* utils/gemini.ts parseJsonFromText: the parsed value, or the rethrown error
parseJsonFromText(text) ==
    IF text.form \in {"object", "literal"}
    THEN [threw |-> FALSE, value |-> text.value]
    ELSE [threw |-> TRUE, value |-> Null]

(***************************************************************************)
(* nodes/plan.ts                                                           *)
(***************************************************************************)
\* A plan text, as extractQueriesFromPlanText's regular expressions see it:
\* quoted are its double-quoted substrings, lines its list lines and keyword
\* lines after the list marker and a trailing colon are removed and trimmed.
PlanText(quoted, lines) == [quoted |-> quoted, lines |-> lines]

extractQueriesFromPlanText(plan, maxQ) ==
    LET found == IF Len(plan.quoted) = 0 THEN plan.lines ELSE plan.quoted
        kept == NonEmptyStrings(found)
    IN IF maxQ > 0 THEN Take(kept, maxQ) ELSE kept

Returned(v) == [threw |-> FALSE, value |-> v]
Thrown(msg) == [threw |-> TRUE, value |-> msg]

ServiceError == "Text Completion Service error"

\* planResp and parseResp are the service's answers to the two generateContent calls
generateResearchPlan(t, maxQ, planResp, parseResp) ==
    IF ~planResp.ok \/ ~parseResp.ok THEN Thrown(ServiceError)
    ELSE LET plan == planResp.text
             parsed == parseJsonFromText(parseResp.text)
             jsonData == parsed.value
             extractedQueries == extractQueriesFromPlanText(plan, maxQ)
             fallback == IF Len(extractedQueries) > 0 THEN extractedQueries
                         ELSE <<t \o " impact and applications">>
         IN IF parsed.threw THEN Returned(fallback)
            ELSE IF jsonData.type = "object" /\ jsonData.queries.t = "array"
                 THEN Returned(IF maxQ > 0 THEN Take(jsonData.queries.items, maxQ)
                               ELSE jsonData.queries.items)
                 ELSE Returned(fallback)

(***************************************************************************)
(* nodes/search.ts                                                         *)
(***************************************************************************)
\* one hit of the Web Search Service; "" is a missing or empty property
Hit(title, url, content) == [title |-> title, url |-> url, content |-> content]

\* a SearchResult; filteredContent is <<>> when the property is absent
SearchResult(title, link, content, filteredContent) ==
    [title |-> title, link |-> link, content |-> content,
     filteredContent |-> filteredContent]

\* the SearchResult search() builds from one hit
FromHit(h) ==
    SearchResult(IF h.title = "" THEN "No Title Provided" ELSE h.title,
                 IF h.url = "" THEN "No Link Provided" ELSE h.url,
                 h.content, <<>>)

\* search(query): webResp is the service's answer to searchTool.invoke
search(query, webResp) ==
    IF ~webResp.ok THEN <<>>
    ELSE Take([i \in 1..Len(webResp.hits) |-> FromHit(webResp.hits[i])], maxResults)

\* summarizeContent(content, query): resp is the service's answer
summarizeContent(content, query, resp) == IF resp.ok THEN resp.text ELSE ""

RECURSIVE processSearchResultsDropping(_, _, _)
\* a refinement that drops the results whose summary call failed
processSearchResultsDropping(rs, query, sums) ==
    IF rs = <<>> THEN <<>>
    ELSE LET rest == processSearchResultsDropping(Tail(rs), query, Tail(sums))
         IN IF Head(rs).content = "" THEN <<Head(rs)>> \o rest
            ELSE IF ~Head(sums).ok THEN rest
                 ELSE <<[Head(rs) EXCEPT !.filteredContent = <<Head(sums).text>>]>> \o rest

\* processSearchResults(results, query): sums[i] answers the i-th result's summary call
processSearchResults(rs, query, sums) ==
    [i \in 1..Len(rs) |->
        IF rs[i].content # ""
        THEN [rs[i] EXCEPT !.filteredContent =
                               <<summarizeContent(rs[i].content, query, sums[i])>>]
        ELSE rs[i]]

\* the ResearchEvaluation evaluateCompleteness returns
Evaluation(ic, qs) == [isComplete |-> ic, queries |-> qs]

\* the parsed queries whatever their length
StructureFallbackAsIs(parsedQueries, defaultQueries) == parsedQueries

\* evaluateCompleteness: parsedEvaluation.queries?.length > 0 ? parsedEvaluation.queries
\* : defaultQueries
StructureFallback(parsedQueries, defaultQueries) ==
    IF Len(parsedQueries) > 0 THEN parsedQueries ELSE defaultQueries

\* an evaluation of zero results that asks for nothing more
ZeroResultsEvaluationEmpty(t) == Evaluation(FALSE, <<>>)

\* evaluateCompleteness: what it returns for zero results
ZeroResultsEvaluation(t) == Evaluation(FALSE, <<t \o " overview", t \o " key aspects">>)

\* evaluateCompleteness(topic, results): evalResp and parseResp are the service's
\* answers to the two generateContent calls
evaluateCompleteness(t, rs, evalResp, parseResp) ==
    IF Len(rs) = 0 THEN ZeroResultsEvaluation(t)
    ELSE IF ~evalResp.ok \/ ~parseResp.ok
    THEN Evaluation(FALSE, <<t \o " overview", t \o " challenges">>)
    ELSE LET parsed == parseJsonFromText(parseResp.text)
             parsedEvaluation == parsed.value
             defaultQueries == <<t \o " further details", t \o " recent developments">>
         IN IF parsed.threw \/ parsedEvaluation.type = "null"
            THEN Evaluation(FALSE, <<t \o " summary", t \o " related topics">>)
            ELSE IF parsedEvaluation.isComplete.t \notin {"true", "false"}
                    \/ parsedEvaluation.queries.t # "array"
                 THEN Evaluation(FALSE, StructureFallback(parsedEvaluation.queries.items,
                                                          defaultQueries))
                 ELSE Evaluation(parsedEvaluation.isComplete.t = "true",
                                 parsedEvaluation.queries.items)

RECURSIVE ValidIndices(_, _)
\* rankedSources.filter(num => typeof num === 'number' && num > 0 && num <= n)
\*              .map(num => num - 1), kept 1-based here as sequences are
ValidIndices(ranked, n) ==
    IF ranked = <<>> THEN <<>>
    ELSE LET num == Head(ranked)
         IN IF num.isNumber /\ Twice(num) > 0 /\ Twice(num) <= 2 * n
            THEN <<num>> \o ValidIndices(Tail(ranked), n)
            ELSE ValidIndices(Tail(ranked), n)

\* what an array holds at an index that is not one of its indices
UndefinedEntry == [undefined |-> TRUE]

\* results.results[index]: undefined unless the index is a whole number in range
EntryAt(rs, num) ==
    IF ~num.half /\ num.n \in 1..Len(rs) THEN rs[num.n] ELSE UndefinedEntry

\* filterSearchResults(topic, results): resp is the service's answer
filterSearchResults(t, rs, resp) ==
    IF Len(rs) = 0 THEN rs
    ELSE IF ~resp.ok THEN Take(rs, 5)
    ELSE LET parsed == parseJsonFromText(resp.text)
             parsedJson == parsed.value
         IN IF parsed.threw THEN Take(rs, 5)
            ELSE IF parsedJson.type = "object"
                    /\ parsedJson.rankedSources.t = "array"
                    /\ Len(parsedJson.rankedSources.items) > 0
                 THEN LET rankedIndices == ValidIndices(parsedJson.rankedSources.items, Len(rs))
                          filtered == [i \in 1..Len(rankedIndices) |->
                                          EntryAt(rs, rankedIndices[i])]
                      IN Take(filtered, maxFiltered)
                 ELSE Take(rs, 5)

(***************************************************************************)
(* nodes/write.ts (in src/src/nodes/plan.ts)                               *)
(***************************************************************************)
\* The report text is its lines, joined by line breaks.  A line is raw, the
\* characters of the line, and what the pattern /^#\s+(.*?)$/m sees in it:
\*   "heading"  "#", blanks, then text: raw is "# Title", text is "Title"
\*   "bare"     "#" and nothing else on the line
\*   "blank"    no character
\*   "plain"    anything else, "## Sub" included; it starts with no blank
Line(kind, raw, text) == [kind |-> kind, raw |-> raw, text |-> text]

HeadingLine(raw, text) == Line("heading", raw, text)
BareLine == Line("bare", "#", "")
BlankLine == Line("blank", "", "")
PlainLine(raw) == Line("plain", raw, raw)

RECURSIVE AfterWhiteSpace(_)
\* what (.*?)$ captures once \s+ has run over a line break: \s+ takes the
\* blank lines that follow too, and the capture is the next line as it stands,
\* or nothing at the end of the text
AfterWhiteSpace(lines) ==
    IF lines = <<>> THEN ""
    ELSE IF Head(lines).kind = "blank" THEN AfterWhiteSpace(Tail(lines))
         ELSE Head(lines).raw

\* \s+ matches a line break as well: a bare "#" starts a match when a line
\* break follows it
CrossesLineBreak(lines) == Head(lines).kind = "bare" /\ Tail(lines) # <<>>

RECURSIVE FirstHeading(_)
\* report.match(/^#\s+(.*?)$/m): <<>> for no match, else <<the captured text>>
FirstHeading(lines) ==
    IF lines = <<>> THEN <<>>
    ELSE IF Head(lines).kind = "heading" THEN <<Head(lines).text>>
         ELSE IF CrossesLineBreak(lines) THEN <<AfterWhiteSpace(Tail(lines))>>
              ELSE FirstHeading(Tail(lines))

\* the TypeError of reading a property of undefined
TypeError == "TypeError"

\* generateReport(topic, results): resp is the service's answer; the prompt is
\* built from results.toString(), which reads every entry's properties
generateReport(t, rs, resp) ==
    IF \E i \in 1..Len(rs) : rs[i] = UndefinedEntry THEN Thrown(TypeError)
    ELSE IF ~resp.ok THEN Thrown(ServiceError)
    ELSE LET titleMatch == FirstHeading(resp.text)
         IN Returned([title |-> IF Len(titleMatch) > 0 THEN titleMatch[1] ELSE t,
                      content |-> resp.text])

(***************************************************************************)
(* class SearchResults (in src/src/nodes/plan.ts)                          *)
(***************************************************************************)
\* a test that keeps the results whose link was seen before
KeepSeen(seen, link) == link \in seen

\* a test that keeps every result
KeepAlways(seen, link) == TRUE

\* dedup: !seen.has(result.link)
Keep(seen, link) == link \notin seen

RECURSIVE dedupLoop(_, _, _)
\* dedup: for (const result of this.results), with the Set seen and the array unique
dedupLoop(rest, seen, unique) ==
    IF rest = <<>> THEN unique
    ELSE LET result == Head(rest)
         IN dedupLoop(Tail(rest), seen \cup {result.link},
                      IF Keep(seen, result.link) THEN Append(unique, result) ELSE unique)

\* SearchResults.dedup()
dedup(rs) == dedupLoop(rs, {}, <<>>)

(***************************************************************************)
(* The environment: the answers the two services may give.                 *)
(***************************************************************************)
\* the topics a caller passes: none (""), and a research question
Topics == {"", "ev"}

\* a whitespace-only topic beside the empty one
BlankTopics == {"", " "}

HitPool == <<Hit("A", "u1", "c1"), Hit("", "", ""), Hit("B", "u1", "c2")>>

\* searchTool.invoke: it fails, or returns the first n hits of the pool
WebResponses ==
    {[ok |-> FALSE, hits |-> <<>>]}
        \cup {[ok |-> TRUE, hits |-> SubSeq(HitPool, 1, n)] : n \in 0..MaxHits}

\* the summaries of the workflow's runs: the service answers every summary call
SummaryResponses == {Answer("s")}

PlanResponses ==
    {Failure, Answer(PlanText(<<"q1", "q2">>, <<>>)), Answer(PlanText(<<>>, <<"", "q1">>)),
     Answer(PlanText(<<>>, <<>>))}

PlanParseResponses ==
    {Failure, Answer(JsonText("prose", Null)), Answer(JsonText("literal", Null)),
     Answer(JsonText("object", Obj(Undefined, Undefined, Undefined))),
     Answer(JsonText("object", Obj(Undefined, JArray(<<>>), Undefined))),
     Answer(JsonText("object", Obj(Undefined, JArray(<<"q1">>), Undefined))),
     Answer(JsonText("object", Obj(Undefined, JArray(<<"q1", "q2">>), Undefined)))}

\* the evaluation itself is free text; only its extraction is parsed
EvalResponses == {Failure, Answer("evaluation")}

\* the follow-up queries an evaluation may carry: none, or one
FollowUps == {<<>>, <<"q2">>}

EvalParseResponses ==
    {Failure, Answer(JsonText("broken", Null)), Answer(JsonText("literal", Null)),
     Answer(JsonText("object", Obj(JString(<<"y">>), Undefined, Undefined)))}
        \cup {Answer(JsonText("object", Obj(ic, JArray(qs), Undefined))) :
                ic \in {JTrue, JFalse}, qs \in FollowUps}

FilterResponses ==
    {Failure, Answer(JsonText("prose", Null)),
     Answer(JsonText("object", Obj(Undefined, Undefined, JArray(<<>>)))),
     Answer(JsonText("object", Obj(Undefined, Undefined, JArray(<<Num(1)>>)))),
     Answer(JsonText("object", Obj(Undefined, Undefined,
                                   JArray(<<Num(99), NotANumber, Num(0)>>)))),
     Answer(JsonText("object", Obj(Undefined, Undefined, JArray(<<NumAndHalf(1)>>))))}

ReportResponses ==
    {Failure, Answer(<<HeadingLine("# Title", "Title"), PlainLine("body")>>),
     Answer(<<PlainLine("body")>>)}

\* generateReport alone: the lines a report text is made of, and the texts
LinePool ==
    {HeadingLine("# Title", "Title"), HeadingLine("# Other", "Other"), BareLine, BlankLine,
     PlainLine("body"), PlainLine("## Sub")}

ReportTexts == UNION {[1..n -> LinePool] : n \in 0..MaxLines}

\* generateReport alone: the result lists handed to it
ReportResults == {<<>>, <<UndefinedEntry>>}

ReportInputs ==
    {[topic |-> "ev", results |-> rs, response |-> resp] :
        rs \in ReportResults, resp \in {Failure} \cup {Answer(t) : t \in ReportTexts}}

\* the two services
Completion == "completion"
WebSearch == "search"

\* filterSearchResults alone: the result lists it is given, the first n of these
ResultPool ==
    <<SearchResult("A", "u1", "c1", <<"s">>), SearchResult("B", "u2", "c2", <<>>),
      SearchResult("C", "u1", "c3", <<"s">>)>>

\* filterSearchResults alone: a result list longer than the fallback keeps
LongInput == [i \in 1..maxResults + 1 |-> ResultPool[1 + (i % 3)]]

FilterInputs == {SubSeq(ResultPool, 1, n) : n \in 0..MaxFilterInput} \cup {LongInput}

\* filterSearchResults alone: the elements a ranking is made of
RankedElements == {Num(0), Num(1), Num(2), Num(99), NumAndHalf(1), NotANumber}

\* filterSearchResults alone: rankings longer than the filtered set may get,
\* naming one source over and over, or two in turn
LongRankings ==
    {[i \in 1..maxFiltered + 1 |-> Num(1)], [i \in 1..maxFiltered + 1 |-> Num(1 + (i % 2))]}

RankedSources ==
    UNION {[1..n -> RankedElements] : n \in 0..MaxRanked} \cup LongRankings

\* filterSearchResults alone: the answers of the service
FilterAnswers ==
    {Failure, Answer(JsonText("prose", Null)),
     Answer(JsonText("object", Obj(Undefined, Undefined, Undefined)))}
        \cup {Answer(JsonText("object", Obj(Undefined, Undefined, JArray(ranked)))) :
                ranked \in RankedSources}

\* processSearchResults alone: the results a batch is made of, with and without
\* content, and the answers to a summary call: a failure, a summary, an empty text
ProcessElements ==
    {SearchResult("A", "u1", "c1", <<>>), SearchResult("No Title Provided", "No Link Provided", "", <<>>),
     SearchResult("B", "u1", "c2", <<>>)}

SummaryAnswers == {Failure, Answer("s"), Answer("")}

ProcessInputs ==
    UNION {{[results |-> rs, summaries |-> sums] :
              rs \in [1..n -> ProcessElements], sums \in [1..n -> SummaryAnswers]} :
           n \in 0..MaxProcessInput}

\* SearchResults.dedup alone: the results its lists are made of: links shared
\* by two results, and results without a link
DedupElements ==
    {SearchResult("A", "u1", "c1", <<>>), SearchResult("B", "u1", "c2", <<>>),
     SearchResult("C", "u2", "c3", <<>>), SearchResult("D", "", "c4", <<>>),
     SearchResult("E", "", "c5", <<>>)}

DedupInputs == UNION {[1..n -> DedupElements] : n \in 0..MaxDedupInput}

\* evaluateCompleteness alone: the extraction the service answers: no JSON, broken
\* JSON, null, or an object whose isComplete and queries are of any of these kinds
EvalExtractions ==
    {Failure, Answer(JsonText("prose", Null)), Answer(JsonText("broken", Null)),
     Answer(JsonText("literal", Null))}
        \cup {Answer(JsonText("object", Obj(ic, qs, Undefined))) :
                ic \in {Undefined, JTrue, JFalse, JString(<<"y">>)},
                qs \in {Undefined, JString(<<"m">>)}
                          \cup {JArray(SubSeq(<<"q2", "q3", "q4">>, 1, n)) :
                                  n \in 0..MaxFollowUps}}

(***************************************************************************)
(* src/src/graph.ts: the graph.                                            *)
(***************************************************************************)
\* setEntryPoint("Plan")
EntryPoint == "Plan"

\* addEdge("Plan", "Search")
AfterPlan == "Search"

\* an edge from Search past the evaluation
AfterSearchWrites == "Write"

\* addEdge("Search", "Evaluate")
AfterSearch == "Evaluate"

\* an edge from Write back into the loop
AfterWriteLoops == "Search"

\* addEdge("Write", END)
AfterWrite == "END"

\* a conditional edge that always loops
RouteAlwaysSearch(complete) == "Search"

\* the conditional edge after Evaluate; the node's update always holds isComplete
Route(complete) == IF complete THEN "Write" ELSE "Search"

NoEvaluation == [called |-> FALSE, isComplete |-> FALSE, queries |-> <<>>]

\* filterSearchResults is not being run on its own
FilterIdle ==
    /\ filterInput = <<>>
    /\ filterResponse = Failure
    /\ filterOutput = <<>>

\* evaluateCompleteness is not being run on its own
EvalIdle ==
    /\ evalInput = <<>>
    /\ evalAnswers = <<Failure, Failure>>
    /\ evalOutput = <<>>

\* SearchResults.dedup is not being run on its own
DedupIdle ==
    /\ dedupInput = <<>>
    /\ dedupOutput = <<>>
    /\ dedupAgain = <<>>

\* no function is being run on its own
ReportIdle ==
    /\ reportInput = [topic |-> "ev", results |-> <<>>, response |-> Failure]
    /\ reportOutput = <<>>

\* processSearchResults is not being run on its own
ProcessIdle ==
    /\ processInput = [results |-> <<>>, summaries |-> <<>>]
    /\ processOutput = <<>>

HarnessIdle == FilterIdle /\ EvalIdle /\ DedupIdle /\ ReportIdle /\ ProcessIdle

\* researcher.invoke({ topic }): every other channel is unset
InitWorkflow(T) ==
    /\ inputTopic \in T
    /\ topic = inputTopic
    /\ pc = EntryPoint
    /\ error = ""
    /\ queries = <<>>
    /\ results = <<>>
    /\ isComplete = FALSE
    /\ filteredResults = <<>>
    /\ report = <<>>
    /\ iterationCount = 0
    /\ qi = 0
    /\ newResults = <<>>
    /\ planYield = <<>>
    /\ lastEvaluation = NoEvaluation
    /\ searched = <<>>
    /\ nSearch = 0
    /\ nEvaluate = 0
    /\ nWrite = 0
    /\ inFlight = "none"
    /\ serviceCalls = {}
    /\ answers = <<>>
    /\ lastFiltered = <<>>
    /\ flattened = <<>>

InitWith(T) == InitWorkflow(T) /\ HarnessIdle

Init == InitWith(Topics)

\* a node throws: invoke rejects with the error, the channels keep their values
Throw(msg) ==
    /\ pc' = "Error"
    /\ error' = msg
    /\ UNCHANGED <<inputTopic, channels, qi, newResults, planYield, lastEvaluation, searched,
                   inFlight, answers, lastFiltered, flattened, harness>>

\* the services in the set are called
Called(services) == serviceCalls' = serviceCalls \cup services

(***************************************************************************)
(* src/src/graph.ts: the nodes.                                            *)
(***************************************************************************)
\* a Plan that returns no topic
PlannedTopicCleared(t) == ""

\* planingNode: the topic it returns, "topic, // Keep the original topic"
PlannedTopic(t) == t

\* a guard that lets every topic through
MissingNever(t) == FALSE

\* !topic
Missing(t) == t = ""

\* a guard that lets an empty query list through
NoQueriesNever(qs) == FALSE

\* queries.length === 0
NoQueries(qs) == Len(qs) = 0

\* the cap compared with > in place of >=
ForcedCompletionLate(count) == count > MAX_ITERATIONS

\* iterationCount >= MAX_ITERATIONS
ForcedCompletion(count) == count >= MAX_ITERATIONS

\* a Search round counted twice
IncrementedCountTwice(count) == count + 2

\* searchingNode: (state.iterationCount || 0) + 1
IncrementedCount(count) == count + 1

\* Evaluate counting a round of its own
EvaluatedCountBumped(count) == count + 1

\* Evaluate starting the count again
EvaluatedCountReset(count) == 0

\* evaluatingNode: the iterationCount it returns, state.iterationCount || 0
EvaluatedCount(count) == count

\* Evaluate leaving the queries channel alone
EvaluatedQueriesKept(evaluation, old) == old

\* Evaluate storing the evaluation's queries whatever the verdict
EvaluatedQueriesAlways(evaluation, old) == evaluation.queries

\* evaluatingNode: ...(evaluation.isComplete ? {} : { queries: evaluation.queries })
EvaluatedQueries(evaluation, old) ==
    IF evaluation.isComplete THEN old ELSE evaluation.queries

\* results that replace the earlier ones
CombinedResultsReplaced(old, new) == new

\* new results put in front of the earlier ones
CombinedResultsPrepended(old, new) == new \o old

\* searchingNode: state.results && state.results.length > 0 ? [...both] : newResults
CombinedResults(old, new) == IF Len(old) > 0 THEN old \o new ELSE new

\* a push that skips a query without results
PushedIfAny(batches, query, processedResults) ==
    IF Len(processedResults) = 0 THEN batches
    ELSE Append(batches, [query |-> query, searchResults |-> processedResults])

\* searchingNode: newResults.push({ query, searchResults: processedResults })
Pushed(batches, query, processedResults) ==
    Append(batches, [query |-> query, searchResults |-> processedResults])

\* a loop that ends after its first query
LoopDoneEarly(i, qs) == i > 1

\* searchingNode: for (const query of queries) has run out of queries
LoopDone(i, qs) == i > Len(qs)

\* calls made whether or not the guards throw
UnguardedCalls(guardThrows, services) == services

\* the services a node calls: none when one of its guards throws, as the
\* guards come first
GuardedCalls(guardThrows, services) == IF guardThrows THEN {} ELSE services

Placeholder ==
    SearchResult("No relevant results found", "", "Please try different search queries.", <<>>)

\* filteredResults without the placeholder
FilteredBatchRaw(t, filteredRaw) == <<[query |-> t, searchResults |-> filteredRaw]>>

\* evaluatingNode: the filteredResults it returns
FilteredBatch(t, filteredRaw) ==
    <<[query |-> t,
       searchResults |-> IF Len(filteredRaw) > 0 THEN filteredRaw ELSE <<Placeholder>>]>>

\* the results of the newest batch alone
FlattenedResultsLatest(batches) ==
    IF batches = <<>> THEN <<>> ELSE batches[Len(batches)].searchResults

\* results.flatMap(r => r.searchResults.results)
FlattenedResults(batches) ==
    Flatten([i \in 1..Len(batches) |-> batches[i].searchResults])

planingNode ==
    /\ pc = "Plan"
    /\ UNCHANGED <<nSearch, nEvaluate, nWrite>>
    /\ Called(GuardedCalls(Missing(topic), {Completion}))
    /\ IF Missing(topic)
       THEN Throw("No topic provided for planning")
       ELSE \E planResp \in PlanResponses :
            \E parseResp \in (IF planResp.ok THEN PlanParseResponses ELSE {Failure}) :
              LET plan == generateResearchPlan(topic, maxQueries, planResp, parseResp)
              IN IF plan.threw
                 THEN Throw(plan.value)
                 ELSE /\ topic' = PlannedTopic(topic)
                      /\ queries' = plan.value
                      /\ iterationCount' = 0
                      /\ planYield' = <<plan.value>>
                      /\ pc' = AfterPlan
                      /\ UNCHANGED <<error, inputTopic, results, isComplete,
                                     filteredResults, report, qi, newResults,
                                     lastEvaluation, searched, inFlight, answers,
                                     lastFiltered, flattened, harness>>

\* searchingNode up to its for-loop
searchingNodeEnter ==
    /\ pc = "Search"
    /\ nSearch' = nSearch + 1
    /\ UNCHANGED <<nEvaluate, nWrite, serviceCalls>>
    /\ IF Missing(topic)
       THEN Throw("No topic provided for search")
       ELSE IF NoQueries(queries)
       THEN Throw("No queries to search for")
       ELSE /\ pc' = "SearchLoop"
            /\ qi' = 1
            /\ newResults' = <<>>
            /\ searched' = <<>>
            /\ answers' = <<>>
            /\ UNCHANGED <<error, inputTopic, channels, planYield, lastEvaluation,
                           inFlight, lastFiltered, flattened, harness>>

\* a turn of searchingNode's for-loop begins: runSearch.search(query) sends the
\* query to the Web Search Service and awaits it; nothing bounds the wait, so
\* whether an answer ever comes is the service's choice
searchingNodeDispatch ==
    /\ pc = "SearchLoop"
    /\ ~LoopDone(qi, queries)
    /\ inFlight = "none"
    /\ inFlight' \in {"pending", "never"}
    /\ searched' = Append(searched, queries[qi])
    /\ Called({WebSearch})
    /\ UNCHANGED <<pc, error, inputTopic, channels, qi, newResults, planYield,
                   lastEvaluation, nSearch, nEvaluate, nWrite, answers, lastFiltered, flattened,
                   harness>>

\* the rest of the turn: the awaited search settles, then processSearchResults,
\* then the push
searchingNodeQuery ==
    /\ pc = "SearchLoop"
    /\ inFlight = "pending"
    /\ \E webResp \in WebResponses :
         LET query == queries[qi]
             searchResults == search(query, webResp)
         IN /\ answers' = Append(answers, webResp)
            /\ Called(IF \E i \in 1..Len(searchResults) : searchResults[i].content # ""
                      THEN {Completion} ELSE {})
            /\ \E sums \in [1..Len(searchResults) -> SummaryResponses] :
                 LET processedResults == processSearchResults(searchResults, query, sums)
                 IN newResults' = Pushed(newResults, query, processedResults)
    /\ inFlight' = "none"
    /\ qi' = qi + 1
    /\ UNCHANGED <<pc, error, inputTopic, channels, planYield, lastEvaluation, searched,
                   nSearch, nEvaluate, nWrite, lastFiltered, flattened, harness>>

\* searchingNode after its for-loop
searchingNodeReturn ==
    /\ pc = "SearchLoop"
    /\ LoopDone(qi, queries)
    /\ inFlight = "none"
    /\ results' = CombinedResults(results, newResults)
    /\ queries' = <<>>
    /\ iterationCount' = IncrementedCount(iterationCount)
    /\ pc' = AfterSearch
    /\ qi' = 0
    /\ newResults' = <<>>
    /\ answers' = <<>>
    /\ UNCHANGED <<error, inputTopic, topic, isComplete, filteredResults, report,
                   planYield, lastEvaluation, searched, nSearch, nEvaluate, nWrite,
                   inFlight, serviceCalls, lastFiltered, flattened, harness>>

\* evaluatingNode's branch "Continue with normal evaluation if under max iterations"
evaluatingNodeNormal(flattenedResults) ==
    \E evalResp \in EvalResponses :
    \E parseResp \in (IF evalResp.ok THEN EvalParseResponses ELSE {Failure}),
       filterResp \in FilterResponses :
      LET evaluation == evaluateCompleteness(topic, flattenedResults, evalResp, parseResp)
          filteredRawResults == filterSearchResults(topic, flattenedResults, filterResp)
      IN /\ isComplete' = evaluation.isComplete
         /\ queries' = EvaluatedQueries(evaluation, queries)
         /\ filteredResults' = FilteredBatch(topic, filteredRawResults)
         /\ lastFiltered' = filteredRawResults
         /\ flattened' = flattenedResults
         /\ iterationCount' = EvaluatedCount(iterationCount)
         /\ lastEvaluation' = [called |-> TRUE, isComplete |-> evaluation.isComplete,
                               queries |-> evaluation.queries]

\* a cap branch that still asks the evaluation
evaluatingNodeForcedAsks(flattenedResults) == evaluatingNodeNormal(flattenedResults)

\* evaluatingNode's branch "Force completion after maximum iterations"
evaluatingNodeForced(flattenedResults) ==
    \E filterResp \in FilterResponses :
      LET filteredRawResults == filterSearchResults(topic, flattenedResults, filterResp)
      IN /\ isComplete' = TRUE
         /\ filteredResults' = FilteredBatch(topic, filteredRawResults)
         /\ lastFiltered' = filteredRawResults
         /\ flattened' = flattenedResults
         /\ iterationCount' = EvaluatedCount(iterationCount)
         /\ lastEvaluation' = NoEvaluation
         /\ UNCHANGED queries

evaluatingNode ==
    /\ pc = "Evaluate"
    /\ nEvaluate' = nEvaluate + 1
    /\ UNCHANGED <<nSearch, nWrite>>
    /\ Called(GuardedCalls(Missing(topic) \/ Len(results) = 0,
                           IF \A i \in 1..Len(results) : results[i].searchResults = <<>>
                           THEN {} ELSE {Completion}))
    /\ IF Missing(topic)
       THEN Throw("No topic provided for evaluation")
       ELSE IF Len(results) = 0
       THEN Throw("No results to evaluate")
       ELSE /\ IF ForcedCompletion(iterationCount)
               THEN evaluatingNodeForced(FlattenedResults(results))
               ELSE evaluatingNodeNormal(FlattenedResults(results))
            /\ pc' = Route(isComplete')
            /\ UNCHANGED <<error, inputTopic, topic, results, report, qi,
                           newResults, planYield, searched, inFlight, answers, harness>>

writingNode ==
    /\ pc = "Write"
    /\ nWrite' = nWrite + 1
    /\ UNCHANGED <<nSearch, nEvaluate>>
    /\ IF Missing(topic)
       THEN Throw("No topic provided for report writing") /\ UNCHANGED serviceCalls
       ELSE IF Len(filteredResults) = 0
       THEN Throw("No filtered results for report writing") /\ UNCHANGED serviceCalls
       ELSE LET flattenedResults == FlattenedResults(filteredResults)
            IN \E resp \in ReportResponses :
                 LET written == generateReport(topic, flattenedResults, resp)
                 IN /\ Called(IF written.threw /\ written.value = TypeError
                              THEN {} ELSE {Completion})
                    /\ IF written.threw
                       THEN Throw(written.value)
                       ELSE /\ report' = <<written.value>>
                            /\ pc' = AfterWrite
                            /\ UNCHANGED <<error, inputTopic, topic, queries, results,
                                           isComplete, filteredResults, iterationCount, qi,
                                           newResults, planYield, lastEvaluation,
                                           searched, inFlight, answers, lastFiltered, flattened,
                                           harness>>

Next ==
    \/ planingNode
    \/ searchingNodeEnter
    \/ searchingNodeDispatch
    \/ searchingNodeQuery
    \/ searchingNodeReturn
    \/ evaluatingNode
    \/ writingNode

Spec == Init /\ [][Next]_vars

\* the same workflow, called with an empty or a whitespace-only topic
SpecBlank == InitWith(BlankTopics) /\ [][Next]_vars

\* filterSearchResults called once, on its own, for the topic "ev"
InitFilter ==
    /\ InitWorkflow({"ev"})
    /\ EvalIdle
    /\ DedupIdle
    /\ ReportIdle
    /\ ProcessIdle
    /\ filterInput \in FilterInputs
    /\ filterResponse \in FilterAnswers
    /\ filterOutput = <<>>

filterSearchResultsCall ==
    /\ filterOutput = <<>>
    /\ filterOutput' = <<filterSearchResults(topic, filterInput, filterResponse)>>
    /\ UNCHANGED <<workflow, filterInput, filterResponse, evalHarness, dedupHarness, reportHarness, processHarness>>

NextFilter == filterSearchResultsCall

SpecFilter == InitFilter /\ [][NextFilter]_vars

\* evaluateCompleteness called once, on its own, for the topic "ev"
InitEvaluate ==
    /\ InitWorkflow({"ev"})
    /\ FilterIdle
    /\ DedupIdle
    /\ ReportIdle
    /\ ProcessIdle
    /\ evalInput \in FilterInputs
    /\ evalAnswers \in EvalResponses \X EvalExtractions
    /\ evalOutput = <<>>

evaluateCompletenessCall ==
    /\ evalOutput = <<>>
    /\ evalOutput' = <<evaluateCompleteness(topic, evalInput, evalAnswers[1], evalAnswers[2])>>
    /\ UNCHANGED <<workflow, filterHarness, evalInput, evalAnswers, dedupHarness, reportHarness, processHarness>>

NextEvaluate == evaluateCompletenessCall

SpecEvaluate == InitEvaluate /\ [][NextEvaluate]_vars

\* SearchResults.dedup called on a result list, then on what it returned
InitDedup ==
    /\ InitWorkflow({"ev"})
    /\ FilterIdle
    /\ EvalIdle
    /\ ReportIdle
    /\ ProcessIdle
    /\ dedupInput \in DedupInputs
    /\ dedupOutput = <<>>
    /\ dedupAgain = <<>>

dedupCall ==
    /\ dedupOutput = <<>>
    /\ dedupOutput' = <<dedup(dedupInput)>>
    /\ UNCHANGED <<workflow, filterHarness, evalHarness, dedupInput, dedupAgain,
                   reportHarness, processHarness>>

dedupCallAgain ==
    /\ dedupOutput # <<>>
    /\ dedupAgain = <<>>
    /\ dedupAgain' = <<dedup(dedupOutput[1])>>
    /\ UNCHANGED <<workflow, filterHarness, evalHarness, dedupInput, dedupOutput,
                   reportHarness, processHarness>>

NextDedup ==
    \/ dedupCall
    \/ dedupCallAgain

SpecDedup == InitDedup /\ [][NextDedup]_vars

\* generateReport called on a topic, a result list and the service's answer
InitReport ==
    /\ InitWorkflow({"ev"})
    /\ FilterIdle
    /\ EvalIdle
    /\ DedupIdle
    /\ ProcessIdle
    /\ reportInput \in ReportInputs
    /\ reportOutput = <<>>

generateReportCall ==
    /\ reportOutput = <<>>
    /\ reportOutput' = <<generateReport(reportInput.topic, reportInput.results,
                                        reportInput.response)>>
    /\ UNCHANGED <<workflow, filterHarness, evalHarness, dedupHarness, reportInput,
                   processHarness>>

NextReport == generateReportCall

SpecReport == InitReport /\ [][NextReport]_vars

\* processSearchResults called on a batch, for the query "q1"
InitProcess ==
    /\ InitWorkflow({"ev"})
    /\ FilterIdle
    /\ EvalIdle
    /\ DedupIdle
    /\ ReportIdle
    /\ processInput \in ProcessInputs
    /\ processOutput = <<>>

processSearchResultsCall ==
    /\ processOutput = <<>>
    /\ processOutput' = <<processSearchResults(processInput.results, "q1",
                                               processInput.summaries)>>
    /\ UNCHANGED <<workflow, filterHarness, evalHarness, dedupHarness, reportHarness,
                   processInput>>

NextProcess == processSearchResultsCall

SpecProcess == InitProcess /\ [][NextProcess]_vars

(***************************************************************************)
(* Properties.                                                             *)
(***************************************************************************)
\* the errors of the guards for a missing topic or missing queries
InputErrors ==
    {"No topic provided for planning", "No topic provided for search",
     "No queries to search for"}

\* Plan returned, and returned no query
PlanYieldedNone == planYield = << <<>> >>

\* C1: in every run, whatever the evaluation and the services answer, the
\* workflow reaches Writing after at most MAX_ITERATIONS executions of Search
\* and then Done: Search never executes more often, and a run that was given
\* a topic and planned queries is never aborted (stated here even with the
\* runs set aside in which a call of a service failed outright).
C1_ReachesWritingAndDone ==
    /\ nSearch <= MAX_ITERATIONS
    /\ pc = "Error" => (inputTopic = "" \/ PlanYieldedNone \/ error = ServiceError)

\* C2: no failure of the Text Completion Service or the Web Search Service
\* reaches the caller: a run only ever fails with an input error.
C2_OnlyInputErrorPropagates == pc = "Error" => error \in InputErrors

\* C3: in every reachable state iterationCount is between 0 and MAX_ITERATIONS.
C3_IterationCountBounded == iterationCount \in 0..MAX_ITERATIONS

C3_Witness == pc = "END" /\ iterationCount = MAX_ITERATIONS

\* C4: a Search stage execution that completes raises iterationCount by exactly
\* 1 however many queries it ran, Plan sets it to 0, and no other step of any
\* stage changes it.
C4_CountedPerSearchRound ==
    [][/\ (pc = "SearchLoop" /\ pc' = "Evaluate") => iterationCount' = iterationCount + 1
       /\ (pc = "Plan" /\ pc' = "Search") => iterationCount' = 0
       /\ (~(pc = "SearchLoop" /\ pc' = "Evaluate") /\ ~(pc = "Plan" /\ pc' = "Search"))
              => iterationCount' = iterationCount]_vars

\* a round of two queries has counted as one
C4_Witness == pc = "Evaluate" /\ iterationCount = 1 /\ Len(results) = 2

\* C5: an Evaluate entered after the MAX_ITERATIONS-th Search round goes to
\* Write without asking the evaluation, with isComplete true, and a run that
\* ends after MAX_ITERATIONS rounds ends with iterationCount = MAX_ITERATIONS.
C5_ForcedCompletion ==
    /\ [][(pc = "Evaluate" /\ nSearch = MAX_ITERATIONS)
             => (/\ pc' = "Write"
                 /\ isComplete'
                 /\ lastEvaluation' = NoEvaluation
                 /\ iterationCount' = MAX_ITERATIONS)]_vars
    /\ []((pc = "END" /\ nSearch = MAX_ITERATIONS)
             => (isComplete /\ iterationCount = MAX_ITERATIONS))

\* two evaluations judged the research incomplete, the third was not asked
C5_Witness ==
    /\ pc = "Write"
    /\ nEvaluate = MAX_ITERATIONS
    /\ lastEvaluation = NoEvaluation
    /\ isComplete
    /\ iterationCount = MAX_ITERATIONS

\* C6: when the evaluation judges the evidence insufficient below the cap, the
\* next stage is Search with exactly the evaluation's follow-up queries
\* pending, and those are exactly the queries that Search round runs.
C6_LoopsWithFollowUps ==
    /\ [][(pc = "Evaluate" /\ iterationCount < MAX_ITERATIONS
             /\ lastEvaluation'.called /\ ~lastEvaluation'.isComplete)
             => (pc' = "Search" /\ queries' = lastEvaluation'.queries)]_vars
    /\ []((pc = "Evaluate" /\ nSearch >= 2) => searched = lastEvaluation.queries)

\* the second round ran the two follow-up queries of the first evaluation
C6_Witness ==
    /\ pc = "Evaluate"
    /\ nSearch = 2
    /\ lastEvaluation.called
    /\ searched = lastEvaluation.queries
    /\ Len(searched) = 2

\* C7: when the evaluation judges the evidence sufficient the next stage is
\* Write, and from Write on no Search stage executes.
C7_CompleteGoesToWrite ==
    /\ [][(pc = "Evaluate" /\ lastEvaluation'.called /\ lastEvaluation'.isComplete)
             => pc' = "Write"]_vars
    /\ [][(pc \in {"Write", "END"})
             => (pc' \notin {"Search", "SearchLoop"} /\ nSearch' = nSearch)]_vars

\* the first evaluation judged the research complete
C7_Witness ==
    /\ pc = "END"
    /\ lastEvaluation.called
    /\ lastEvaluation.isComplete
    /\ nSearch = 1

\* C8: once report is set no stage takes a step, so Write executes at most
\* once and the report is never overwritten.
C8_ReportIsTerminal ==
    /\ [][report = <<>>]_vars
    /\ [](nWrite <= 1)
    /\ [](report # <<>> => (pc = "END" /\ nWrite = 1))

C8_Witness == pc = "END" /\ Len(report) = 1 /\ nWrite = 1

\* trimmed, the topic is empty
Blank(t) == t \in {"", " "}

\* C9 as claimed: with an empty or whitespace-only topic the run gets no
\* further than Plan's guard and produces no report.
C9_BlankTopicFails == Blank(inputTopic) => (pc \in {"Plan", "Error"} /\ report = <<>>)

\* C9 as amended: with an empty topic Plan's only step is to fail with "No
\* topic provided for planning", and no report is produced.
C9_EmptyTopicFails ==
    /\ [][(pc = "Plan" /\ inputTopic = "")
             => (pc' = "Error" /\ error' = "No topic provided for planning")]_vars
    /\ [](inputTopic = "" => (pc \in {"Plan", "Error"} /\ report = <<>>))

C9_Witness ==
    inputTopic = "" /\ pc = "Error" /\ error = "No topic provided for planning"

\* C10: when Plan yields zero queries the run fails, in the Search stage that
\* follows, with "No queries to search for", and produces no report.
C10_NoPlannedQueriesFails ==
    /\ [][(pc = "Search" /\ PlanYieldedNone)
             => (pc' = "Error" /\ error' = "No queries to search for")]_vars
    /\ [](PlanYieldedNone => (pc \in {"Search", "Error"} /\ report = <<>>))

C10_Witness == PlanYieldedNone /\ pc = "Error" /\ error = "No queries to search for"

\* the errors of the guards for a missing topic
MissingTopicErrors ==
    {"No topic provided for planning", "No topic provided for search",
     "No topic provided for evaluation", "No topic provided for report writing"}

\* C11 (as stated): whenever a run aborts with an input error (missing topic
\* or missing queries), no call to the Text Completion Service or the Web
\* Search Service has been made in that run.
C11_InputErrorBeforeSideEffects ==
    (pc = "Error" /\ error \in InputErrors) => serviceCalls = {}

\* C11 (amended): a run that aborts for a missing topic has called neither
\* service; a run that aborts for missing queries has already called the Text
\* Completion Service (Plan did), and has called the Web Search Service exactly
\* when the abort is not in the first Search round.
C11_MissingTopicBeforeSideEffects ==
    /\ (pc = "Error" /\ error \in MissingTopicErrors) => serviceCalls = {}
    /\ (pc = "Error" /\ error = "No queries to search for")
           => /\ Completion \in serviceCalls
              /\ WebSearch \in serviceCalls <=> nSearch > 1

C11_Witness ==
    pc = "Error" /\ error = "No topic provided for planning" /\ serviceCalls = {}

\* the batches a Search stage put behind the earlier ones
Appended(old, new) == SubSeq(new, Len(old) + 1, Len(new))

\* C12: a Search round over N pending queries appends exactly N batches, in the
\* order the queries were submitted: the i-th appended batch carries the i-th
\* query.
C12_BatchPerQueryInOrder ==
    [][(pc = "SearchLoop" /\ pc' = "Evaluate")
          => /\ Len(results') = Len(results) + Len(queries)
             /\ \A i \in 1..Len(queries) : results'[Len(results) + i].query = queries[i]]_vars

C12_Witness ==
    /\ pc = "Evaluate" /\ nSearch = 2 /\ Len(results) = 3
    /\ results[1].query = "q1" /\ results[2].query = "q2" /\ results[3].query = "q2"

\* the results are those search() builds from the hits of one answer, summarised or not
OwnResults(rs, hits) ==
    /\ Len(rs) = Min(Len(hits), maxResults)
    /\ \A j \in 1..Len(rs) :
         /\ rs[j].title = FromHit(hits[j]).title
         /\ rs[j].link = FromHit(hits[j]).link
         /\ rs[j].content = hits[j].content

\* C13: within a Search round every settled query has its batch, in the order
\* of the queries; the batch of a query whose search failed is empty, and every
\* other batch holds the results of its own answer; the round appends these
\* batches, one per query, whether or not a search failed.
C13_FailureIsolation ==
    /\ [](pc = "SearchLoop"
            => /\ Len(newResults) = Len(answers)
               /\ \A i \in 1..Len(answers) :
                    /\ newResults[i].query = queries[i]
                    /\ ~answers[i].ok => newResults[i].searchResults = <<>>
                    /\ answers[i].ok => OwnResults(newResults[i].searchResults,
                                                   answers[i].hits))
    /\ [][(pc = "SearchLoop" /\ pc' = "Evaluate")
            => /\ Len(answers) = Len(queries)
               /\ Appended(results, results') = newResults]_vars

C13_Witness ==
    /\ pc = "SearchLoop" /\ qi = 3 /\ Len(answers) = 2
    /\ ~answers[1].ok /\ answers[2].ok
    /\ newResults[1].searchResults = <<>>
    /\ Len(newResults[2].searchResults) = 1

C15_UnsettledQueryDoesNotBlock ==
    (pc = "SearchLoop" /\ inFlight = "never") => ENABLED Next

\* xs is a prefix of ys
IsPrefix(xs, ys) == Len(xs) <= Len(ys) /\ SubSeq(ys, 1, Len(xs)) = xs

\* C16: results is append-only across the run: at every step the previous
\* sequence is a prefix of the new one, and a Search stage puts its batches
\* behind the earlier ones.
C16_ResultsAppendOnly ==
    [][/\ IsPrefix(results, results')
       /\ (pc = "SearchLoop" /\ pc' = "Evaluate") => results' = results \o newResults]_vars

C16_Witness ==
    /\ pc = "Evaluate" /\ nSearch = 3 /\ Len(results) >= 3
    /\ results[1].searchResults # <<>>

\* no two entries of rs have the same link
NoDuplicateLinks(rs) ==
    \A i, j \in 1..Len(rs) :
        (i # j /\ rs[i] # UndefinedEntry /\ rs[j] # UndefinedEntry) => rs[i].link # rs[j].link

\* C17: the result sequence handed to Write never contains two results with
\* the same link.
C17_WriteInputDeduplicated ==
    pc = "Write" => NoDuplicateLinks(FlattenedResults(filteredResults))

RankingOf(resp) ==
    IF resp.ok /\ resp.text.form = "object" /\ resp.text.value.rankedSources.t = "array"
    THEN resp.text.value.rankedSources.items
    ELSE <<>>

\* num is a position of the 1-based list of n results
IsPosition(num, n) == num.isNumber /\ ~num.half /\ num.n \in 1..n

\* the valid positions of a ranking, in its order
ValidPositions(ranked, n) == SelectSeq(ranked, LAMBDA num : IsPosition(num, n))

\* C19: whenever filtering a non-empty result sequence finds no valid position
\* (the response is missing, unparsable, an empty ranking, or a ranking whose
\* positions are all invalid), it returns the first 5 of the original results.
C19_FallsBackToFirstFive ==
    (/\ filterOutput # <<>>
     /\ Len(filterInput) > 0
     /\ ValidPositions(RankingOf(filterResponse), Len(filterInput)) = <<>>)
        => filterOutput[1] = Take(filterInput, 5)

\* C20: when the ranking has valid positions, filtering returns the original
\* results at these positions, in the order of the ranking, and nothing else:
\* every invalid position is dropped and every entry is an original result.
C20_OnlyValidPositionsSurvive ==
    (/\ filterOutput # <<>>
     /\ ValidPositions(RankingOf(filterResponse), Len(filterInput)) # <<>>)
        => LET positions == ValidPositions(RankingOf(filterResponse), Len(filterInput))
           IN /\ filterOutput[1] =
                    Take([i \in 1..Len(positions) |-> filterInput[positions[i].n]],
                         maxFiltered)
              /\ \A i \in 1..Len(filterOutput[1]) :
                    \E j \in 1..Len(filterInput) : filterOutput[1][i] = filterInput[j]

\* Evaluate has just returned: the run stands at the conditional edge's target
JustEvaluated == nEvaluate > 0 /\ pc \in {"Search", "Write"}

\* C21 (as stated): whenever Evaluate is entered with zero accumulated search
\* results, it yields isComplete = false and the two fallback queries
\* "<topic> overview" and "<topic> key aspects".
C21_ZeroResultsAskOverview ==
    (JustEvaluated /\ FlattenedResults(results) = <<>>)
        => /\ isComplete = FALSE
           /\ queries = <<topic \o " overview", topic \o " key aspects">>

\* C21 (amended): Evaluate never fails; entered with zero accumulated search
\* results after fewer than MAX_ITERATIONS Search rounds it yields
\* isComplete = false and the two fallback queries "<topic> overview" and
\* "<topic> key aspects"; entered with zero results after MAX_ITERATIONS
\* rounds it yields isComplete = true and leaves the (empty) queries alone.
C21_ZeroResultsAskOverviewUnderCap ==
    /\ pc = "Error" => error \notin {"No topic provided for evaluation",
                                     "No results to evaluate"}
    /\ (JustEvaluated /\ FlattenedResults(results) = <<>>)
          => IF iterationCount < MAX_ITERATIONS
             THEN /\ isComplete = FALSE
                  /\ pc = "Search"
                  /\ queries = <<topic \o " overview", topic \o " key aspects">>
             ELSE /\ isComplete = TRUE
                  /\ pc = "Write"
                  /\ queries = <<>>

C21_Witness ==
    /\ JustEvaluated /\ FlattenedResults(results) = <<>> /\ nEvaluate = 2
    /\ queries = <<"ev overview", "ev key aspects">>

\* the extraction carries the expected structure: an object with a boolean
\* isComplete and an array queries
ExpectedStructure(resp) ==
    /\ resp.ok
    /\ resp.text.form = "object"
    /\ resp.text.value.isComplete.t \in {"true", "false"}
    /\ resp.text.value.queries.t = "array"

\* evaluateCompleteness ran on results, and the service failed or its
\* extraction does not carry the expected structure
EvaluationUnusable ==
    /\ evalOutput # <<>>
    /\ Len(evalInput) > 0
    /\ ~evalAnswers[1].ok \/ ~ExpectedStructure(evalAnswers[2])

\* the generic follow-up queries made from the topic alone
GenericFallbacks(t) ==
    {<<t \o " overview", t \o " challenges">>,
     <<t \o " summary", t \o " related topics">>,
     <<t \o " further details", t \o " recent developments">>}

C23_DedupIdempotent == dedupAgain # <<>> => dedupAgain = dedupOutput

C23_Witness ==
    /\ dedupAgain # <<>>
    /\ Len(dedupInput) = 3 /\ Len(dedupOutput[1]) = 2 /\ dedupAgain = dedupOutput

RECURSIVE FirstOfEachLink(_, _)
\* of the first n entries of xs, those that no earlier entry shares its link
\* with, in the order of xs
FirstOfEachLink(xs, n) ==
    IF n = 0 THEN <<>>
    ELSE IF \A j \in 1..(n - 1) : xs[j].link # xs[n].link
         THEN Append(FirstOfEachLink(xs, n - 1), xs[n])
         ELSE FirstOfEachLink(xs, n - 1)

\* C24: dedup returns the subsequence of its input that keeps, for each
\* distinct link, only the first result with that link, in input order; the
\* empty link is a key like any other.
C24_DedupFirstSeenWins ==
    dedupOutput # <<>> => dedupOutput[1] = FirstOfEachLink(dedupInput, Len(dedupInput))

C24_Witness ==
    /\ dedupOutput # <<>> /\ Len(dedupInput) = 3
    /\ dedupInput[1].link = "" /\ dedupInput[2].link = "u1" /\ dedupInput[3].link = ""
    /\ dedupInput[1] # dedupInput[3]
    /\ dedupOutput[1] = <<dedupInput[1], dedupInput[2]>>

\* ---- C25: what Evaluate flattens ----

\* the number of results in the batches before batch b
RECURSIVE Offset(_, _)
Offset(batches, b) ==
    IF b <= 1 THEN 0
    ELSE Offset(batches, b - 1) + Len(batches[b - 1].searchResults)

\* flat holds every result of every batch, batch after batch, each batch in its own order
InBatchOrder(flat, batches) ==
    /\ Len(flat) = Offset(batches, Len(batches) + 1)
    /\ \A b \in 1..Len(batches) :
         \A j \in 1..Len(batches[b].searchResults) :
           flat[Offset(batches, b) + j] = batches[b].searchResults[j]

\* C25: the flattened sequence an Evaluate worked on contains every result of
\* every accumulated batch, in batch append order and, inside a batch, in the
\* batch's own order (the accumulated batches are untouched by Evaluate).
C25_FlattenKeepsBatchOrder ==
    JustEvaluated => InBatchOrder(flattened, results)

\* an Evaluate after two rounds whose first batch holds two results and whose
\* second batch holds another one
C25_Witness ==
    /\ JustEvaluated
    /\ Len(results) = 2
    /\ Len(results[1].searchResults) = 2
    /\ Len(results[2].searchResults) >= 1
    /\ results[1].searchResults[1] # results[1].searchResults[2]
    /\ Len(flattened) >= 3

\* ---- C26: stage order ----

\* the program positions that belong to the Search stage
SearchPositions == {"Search", "SearchLoop"}

\* a stage hands over to another position
LeavesSearch == pc \in SearchPositions /\ pc' \notin SearchPositions

\* C26: stages run strictly in state-machine order: the run starts in Plan and
\* never enters Plan again, every Search is immediately followed by Evaluate,
\* every Evaluate by Search or Write, Write by Done, and the run is at one
\* stage at a time.
C26_StagesInOrder ==
    /\ pc = EntryPoint
    /\ [][/\ pc' = "Plan" => pc = "Plan"
          /\ LeavesSearch => pc' = "Evaluate"
          /\ (pc = "Evaluate" /\ pc' # pc) => pc' \in {"Search", "Write"}
          /\ (pc = "Write" /\ pc' # pc) => pc' = "END"]_vars

\* C26 (amended): the same order for every stage that ends without raising;
\* a stage that raises ends the run, and a finished run stays finished.
C26_StagesInOrderUnlessAborted ==
    /\ pc = EntryPoint
    /\ [][/\ pc' = "Plan" => pc = "Plan"
          /\ (pc = "Plan" /\ pc' \notin {pc, "Error"}) => pc' = "Search"
          /\ (LeavesSearch /\ pc' # "Error") => pc' = "Evaluate"
          /\ (pc = "Evaluate" /\ pc' \notin {pc, "Error"}) => pc' \in {"Search", "Write"}
          /\ (pc = "Write" /\ pc' \notin {pc, "Error"}) => pc' = "END"
          /\ pc \in {"END", "Error"} => pc' = pc]_vars

\* a finished run that went Plan, Search, Evaluate, Search, Evaluate, Write
C26_Witness == pc = "END" /\ nSearch = 2 /\ nEvaluate = 2 /\ nWrite = 1 /\ error = ""

\* ---- C27: the title of the report ----

RECURSIVE FirstLineOf(_, _)
\* the first line of one of the kinds, <<>> when the text has none
FirstLineOf(kinds, lines) ==
    IF lines = <<>> THEN <<>>
    ELSE IF Head(lines).kind \in kinds THEN <<Head(lines)>>
         ELSE FirstLineOf(kinds, Tail(lines))

\* the title the text of the first heading line gives, the topic without one
HeadingTitle(kinds, lines, t) ==
    LET first == FirstLineOf(kinds, lines)
    IN IF first = <<>> THEN t ELSE first[1].text

\* generateReport returned a report
ReportReturned == reportOutput # <<>> /\ ~reportOutput[1].threw

\* C27: the title of the returned Report is the text of the first top-level
\* heading line of the generated text (a line "# text"; a line that is "#"
\* alone may count as a heading without text, or as no heading), the topic
\* when the text has no such line, and the content is the generated text
\* unchanged.
C27_TitleIsFirstHeading ==
    ReportReturned =>
        LET lines == reportInput.response.text
            out == reportOutput[1].value
        IN /\ out.title \in {HeadingTitle({"heading"}, lines, reportInput.topic),
                             HeadingTitle({"heading", "bare"}, lines, reportInput.topic)}
           /\ out.content = lines

\* the title is the line below a bare "#", a line that is no heading
C27_TitleFromNextLine ==
    /\ ReportReturned
    /\ reportInput.response.text = <<BareLine, PlainLine("body"), HeadingLine("# Title", "Title")>>
    /\ reportOutput[1].value.title = "body"

\* ---- C28: the queries of a looped Search ----

\* C28: whenever Evaluate hands over to Search, the pending query list is not
\* empty, and so a Search after the first never aborts with "No queries to
\* search for".
C28_LoopedSearchHasQueries ==
    /\ (JustEvaluated /\ pc = "Search") => queries # <<>>
    /\ (pc = "Error" /\ error = "No queries to search for") => nEvaluate = 0

\* an evaluation that answered "not complete" without a follow-up query, and
\* the Search it led to has aborted
C28_LoopedSearchAborted ==
    /\ pc = "Error" /\ error = "No queries to search for"
    /\ nSearch = 2 /\ nEvaluate = 1
    /\ lastEvaluation = [called |-> TRUE, isComplete |-> FALSE, queries |-> <<>>]

\* ---- C29: how many rounds a completed run takes ----

\* the latest Evaluate asked the completeness evaluation and was told "complete"
EvaluationSaidComplete == lastEvaluation.called /\ lastEvaluation.isComplete

\* C29: an Evaluate that loops back to Search was told "not complete", so the
\* evaluation that ends the loop is the first to say "complete"; a run that
\* gets to Write or Done has made as many Evaluate as Search executions, at
\* most MAX_ITERATIONS of them, fewer only when the evaluation of its last
\* round said "complete", and exactly MAX_ITERATIONS when no evaluation did;
\* Write is entered only with isComplete true.
C29_RoundsUntilComplete ==
    /\ [][(pc = "Evaluate" /\ pc' = "Search")
             => (lastEvaluation'.called /\ ~lastEvaluation'.isComplete)]_vars
    /\ [](pc \in {"Write", "END"} =>
            /\ nEvaluate = nSearch
            /\ nSearch \in 1..MAX_ITERATIONS
            /\ nSearch < MAX_ITERATIONS => EvaluationSaidComplete
            /\ ~EvaluationSaidComplete => nSearch = MAX_ITERATIONS)
    /\ [](pc = "Write" => isComplete)

\* a completed run of two rounds, ended by the evaluation, and ...
C29_Witness == pc = "END" /\ nSearch = 2 /\ EvaluationSaidComplete /\ report # <<>>

\* ... a completed run of MAX_ITERATIONS rounds that the evaluation did not end
C29_WitnessCap == pc = "END" /\ nSearch = MAX_ITERATIONS /\ ~EvaluationSaidComplete /\ report # <<>>

\* ---- C30: queries are consumed by Search ----

\* C30: a Search execution that returns leaves the pending query list empty,
\* and the list is still empty in Write and in Done, that is after an Evaluate
\* that reported completion, forced completion included.
C30_QueriesConsumed ==
    /\ [][(pc = "SearchLoop" /\ pc' = "Evaluate") => queries' = <<>>]_vars
    /\ [](pc \in {"Evaluate", "Write", "END"} => queries = <<>>)

\* a completed run whose last evaluation said "complete" and carried a
\* follow-up query all the same
C30_Witness ==
    /\ pc = "END"
    /\ lastEvaluation = [called |-> TRUE, isComplete |-> TRUE, queries |-> <<"q2">>]
    /\ queries = <<>>

\* a completed run that was forced to completion at the cap
C30_WitnessForced == pc = "END" /\ ~lastEvaluation.called /\ queries = <<>>

\* ---- C31: the cap of the filtered set ----

\* filterSearchResults has returned
FilterReturned == filterOutput # <<>>

\* C31: whatever results filterSearchResults is given and whatever the service
\* answers, the list it returns has at most 10 entries (and at most 5 when it
\* falls back to the head of its input).
C31_FilteredAtMostTen ==
    FilterReturned =>
        /\ Len(filterOutput[1]) <= 10
        /\ (~filterResponse.ok /\ filterInput # <<>>) => Len(filterOutput[1]) <= 5

\* a ranking of 11 valid positions has been cut to 10 entries
C31_Witness ==
    /\ FilterReturned
    /\ filterResponse.ok
    /\ Len(filterInput) = 2
    /\ Len(filterOutput[1]) = 10
    /\ \A i \in 1..10 : filterOutput[1][i] \in {filterInput[1], filterInput[2]}

\* the fallback has cut an input of 6 results to its first 5
C31_WitnessFallback ==
    /\ FilterReturned
    /\ ~filterResponse.ok
    /\ Len(filterInput) = 6
    /\ filterOutput[1] = SubSeq(filterInput, 1, 5)

\* ---- C32: filteredResults is the latest Evaluate's, and Write's only input ----

\* x is one of the entries of xs
IsEntryOf(x, xs) == \E i \in 1..Len(xs) : xs[i] = x

\* C32: after any Evaluate, filteredResults is exactly one batch, its query is
\* the topic, and its results are all entries of the flattened accumulated
\* results, or they are the single placeholder; whatever an earlier Evaluate
\* stored is gone.  Write reads this value and nothing else: it fails on an
\* entry it cannot format exactly when this value holds one.
C32_FilteredReplacedFromFlattened ==
    /\ [](JustEvaluated =>
            /\ Len(filteredResults) = 1
            /\ filteredResults[1].query = topic
            /\ \/ filteredResults[1].searchResults = <<Placeholder>>
               \/ \A i \in 1..Len(filteredResults[1].searchResults) :
                     IsEntryOf(filteredResults[1].searchResults[i], FlattenedResults(results)))
    /\ [][(pc = "Write" /\ pc' = "Error" /\ error' = TypeError)
             => IsEntryOf(UndefinedEntry, FlattenedResults(filteredResults))]_vars

\* an Evaluate has stored an entry that is none of the accumulated results
C32_UndefinedEntryFiltered ==
    /\ JustEvaluated
    /\ Len(FlattenedResults(results)) = 2
    /\ filteredResults[1].searchResults = <<UndefinedEntry>>

\* ---- C33: the topic never changes ----

\* C33: in every reachable state the topic is the topic the caller passed to
\* the run, and no step changes it.
C33_TopicNeverChanges ==
    /\ [](topic = inputTopic)
    /\ [][topic' = topic]_vars

\* a run on "ev" that has been through Plan, three rounds and Write
C33_Witness ==
    /\ pc = "END" /\ nSearch = MAX_ITERATIONS /\ nWrite = 1
    /\ inputTopic = "ev" /\ topic = "ev"

\* ---- C34: what Search and Evaluate leave alone ----

\* C34: no step of the Search stage changes isComplete, filteredResults or
\* report (nor the topic): it changes results, queries and iterationCount
\* only.  No step of the Evaluate stage changes results or iterationCount.
C34_StagesLeaveOthersAlone ==
    [][/\ (pc \in SearchPositions)
             => /\ isComplete' = isComplete
                /\ filteredResults' = filteredResults
                /\ report' = report
                /\ topic' = topic
       /\ (pc = "Evaluate") => (results' = results /\ iterationCount' = iterationCount)]_vars

\* a second Search round has gone by with the first Evaluate's filteredResults
\* in place, and the Evaluate after it has run on two batches
C34_Witness ==
    /\ JustEvaluated
    /\ nSearch = 2 /\ nEvaluate = 2
    /\ iterationCount = 2
    /\ Len(results) = 2
    /\ filteredResults # <<>>

\* ---- C35: refinement of a batch ----

\* processSearchResults has returned
ProcessReturned == processOutput # <<>>

\* C35: processSearchResults returns as many results as it was given, in the
\* same order, each with the title, link and content it had; a result whose
\* summary call failed is still there, with the empty text as refined content
\* (one whose call was answered holds the answer, one without content is as it
\* was).
C35_RefinementPreservesResults ==
    ProcessReturned =>
        LET rs == processInput.results
            sums == processInput.summaries
            out == processOutput[1]
        IN /\ Len(out) = Len(rs)
           /\ \A i \in 1..Len(rs) :
                /\ out[i].title = rs[i].title
                /\ out[i].link = rs[i].link
                /\ out[i].content = rs[i].content
                /\ out[i].filteredContent =
                       (IF rs[i].content = "" THEN rs[i].filteredContent
                        ELSE IF sums[i].ok THEN <<sums[i].text>> ELSE <<"">>)

\* a batch of two results with content has been refined; the summary of the
\* first failed, the summary of the second was answered
C35_Witness ==
    /\ ProcessReturned
    /\ Len(processInput.results) = 2
    /\ processInput.results[1].content # "" /\ processInput.results[2].content # ""
    /\ ~processInput.summaries[1].ok /\ processInput.summaries[2].ok
    /\ Len(processOutput[1]) = 2
    /\ processOutput[1][1].filteredContent = <<"">>

====
